---------------------------- MODULE Spec2Model ----------------------------
(***************************************************************************)
(* The embedding batch pipeline and the vector search index of             *)
(* rag-for-competitive-programming: Embedder.embed_db (core/embedding.py), *)
(* VectorDB and its command loop (db/vector_db.py); the chat orchestration *)
(* (messaging.py), the crawler (crawlers/cp_algo/crawler.py) and the       *)
(* session blocks of DB (db/db.py) with URL.get_or_create (db/dataset.py). *)
(***************************************************************************)
EXTENDS Integers, Sequences, FiniteSets, TLC

VARIABLES
    corpus,        \* the page table: the set of Page.id values stored in DATASET
    database_map,  \* vector_db.py:91  model name -> built VectorDB (or NoDB)
    active_db,     \* vector_db.py:92  selected model name, or None
    pc,            \* position of the command loop / of the running build
    cur,           \* the VectorDB under construction and the embed_db generator frame
    events,        \* what the running (or last) command did, in order
    output,        \* what the last command reported to its caller
    builds,        \* number of /index commands read by the loop so far
    muts,          \* number of writes other processes made to the page table
    dist,          \* inputs of the score conversion (float32 distances)
    score,         \* outputs of the score conversion (float32 scores)
    chat_table,    \* chat.py:18-40  the stored Chat rows with their Message rows
    send,          \* messaging.py:23-48  the frame of the running send_message call
    chat_id,       \* messaging.py:56  the chat id the chat loop carries to its next call
    printed,       \* messaging.py:72  the responses the chat loop has printed, in order
    sends,         \* number of send_message calls made so far
    url_table,     \* dataset.py:21-30  the stored URL rows: url -> crawl_status
    page_table,    \* dataset.py:48-58  the Page rows a crawl has stored, in order
    tasks,         \* crawler.py:52  the state of the task of each url
    semaphore,     \* crawler.py:14  the value of the semaphore and its waiting tasks
    crawl,         \* crawler.py:42-72  the frame of the running crawl call
    session,       \* db.py:26-50  the frame of the running session block
    calls,         \* the calls of URL.get_or_create made so far and what they returned
    blocks         \* the session blocks that have been left, in order

replVars == <<corpus, database_map, active_db, pc, cur, events, output, builds, muts>>
scoreVars == <<dist, score>>
chatVars == <<chat_table, send, chat_id, printed, sends>>
crawlVars == <<url_table, page_table, tasks, semaphore, crawl>>
sessVars == <<session, calls, blocks>>
vars == <<corpus, database_map, active_db, pc, cur, events, output, builds, muts, dist, score,
          chat_table, send, chat_id, printed, sends,
          url_table, page_table, tasks, semaphore, crawl,
          session, calls, blocks>>

---------------------------------------------------------------------------
(* Bounds of the model.                                                    *)

MaxId == 3          \* page identifiers are 1..MaxId
MaxBatch == 2       \* --batch-size ranges over 1..MaxBatch
MaxTopK == 3        \* -k ranges over 1..MaxTopK
MaxBuilds == 2      \* /index commands read by the loop in one run
MaxMuts == 1        \* writes to the page table by other processes in one run
ExpSpread == 1      \* exponents tried around each interesting binade

Ids == 1..MaxId
Models == {"m1", "m2"}
None == "None"
NoDB == [built |-> FALSE]
NoBuild == [building |-> FALSE]
NoOutput == [cmd |-> "none"]

---------------------------------------------------------------------------
(* numpy float32 (vector_db.py:61-62: distances is a float32 array, so     *)
(* 1.0 + d and 1.0 / (...) are float32 operations, round-to-nearest-even). *)
(* A float is <<m, e>> and stands for m * 2^e, with 2^23 <= m < 2^24       *)
(* (normal), or m < 2^23 and e = MinExp (subnormal, zero).                 *)

MantBits == 24
MinExp == -149
MaxExp == 104

RECURSIVE Pow2(_)
Pow2(n) == IF n <= 0 THEN 1 ELSE 2 * Pow2(n - 1)

RECURSIVE BitLen(_)
BitLen(n) == IF n = 0 THEN 0 ELSE 1 + BitLen(n \div 2)

MaxOf(a, b) == IF a >= b THEN a ELSE b
MinOf(a, b) == IF a <= b THEN a ELSE b

F32Zero == <<0, MinExp>>
F32One == <<Pow2(MantBits - 1), 1 - MantBits>>
F32Max == <<Pow2(MantBits) - 1, MaxExp>>

\* M / 2^s rounded to the nearest integer, ties to even (s >= 1, M < 2^30)
RoundShift(M, s) ==
    IF s > 30 THEN 0
    ELSE LET p == Pow2(s)
             q == M \div p
             r == M % p
             half == p \div 2
         IN IF r > half \/ (r = half /\ q % 2 = 1) THEN q + 1 ELSE q

\* the float32 nearest to M * 2^e (M < 2^30)
Round32(M, e) ==
    IF M = 0 THEN F32Zero
    ELSE LET L == BitLen(M)
             s == MaxOf(L - MantBits, MinExp - e)
         IN IF s <= 0
            THEN LET t == MinOf(MantBits - L, e - MinExp)
                 IN <<M * Pow2(t), e - t>>
            ELSE LET q == RoundShift(M, s)
                 IN IF q = Pow2(MantBits) THEN <<Pow2(MantBits - 1), e + s + 1>>
                    ELSE <<q, e + s>>

\* an integer as a float32 (exact below 2^24)
F32OfInt(n) == Round32(n, 0)

\* float32 1.0 + d, for d >= 0
F32Add1(d) ==
    LET m == d[1]
        e == d[2]
    IN IF m = 0 THEN F32One
       ELSE IF e >= 2 THEN d
       ELSE IF e = 1 THEN Round32(2 * m + 1, 0)
       ELSE IF e >= -27 THEN Round32(m + Pow2(-e), e)
       ELSE LET t == -27 - e
                q == IF t >= MantBits THEN 0 ELSE m \div Pow2(t)
                lost == IF t >= MantBits THEN TRUE ELSE m % Pow2(t) # 0
                jam == IF lost /\ q % 2 = 0 THEN q + 1 ELSE q
            IN Round32(jam + Pow2(27), -27)

\* <<floor(r * 2^n / m), (r * 2^n) mod m>> by long division
RECURSIVE DivBits(_, _, _, _)
DivBits(r, m, n, q) ==
    IF n = 0 THEN <<q, r>>
    ELSE IF 2 * r >= m THEN DivBits(2 * r - m, m, n - 1, 2 * q + 1)
         ELSE DivBits(2 * r, m, n - 1, 2 * q)

\* float32 1.0 / y, for a normal y >= 1
F32Recip(y) ==
    LET m == y[1]
        e == y[2]
        qr == DivBits(1, m, 2 * MantBits + 1, 0)
        M == 2 * qr[1] + (IF qr[2] # 0 THEN 1 ELSE 0)
    IN Round32(M, -e - (2 * MantBits + 2))

F32Less(a, b) == a[2] < b[2] \/ (a[2] = b[2] /\ a[1] < b[1])
F32Leq(a, b) == a = b \/ F32Less(a, b)

\* vector_db.py:62 with the term 1.0 + dropped
ScoreOfNoOffset(d) == IF d[1] < Pow2(MantBits - 1) THEN F32Max ELSE F32Recip(d)

\* vector_db.py:62  scores = 1.0 / (1.0 + distances.flatten()), elementwise
ScoreOf(d) == F32Recip(F32Add1(d))

---------------------------------------------------------------------------
(* The score conversion on its own: Init draws two float32 distances, the  *)
(* step converts both.                                                     *)

\* the chat orchestration and the crawler when they are not running
ChatIdle ==
    /\ chat_table = <<>> /\ send = [pc |-> "off"] /\ chat_id = 0
    /\ printed = <<>> /\ sends = 0

CrawlIdle ==
    /\ url_table = <<>> /\ page_table = <<>> /\ tasks = <<>>
    /\ semaphore = [value |-> 0, waiters |-> <<>>] /\ crawl = [pc |-> "off"]

\* no session block has been entered
SessIdle == session = [pc |-> "off"] /\ calls = <<>> /\ blocks = <<>>

KeyExps == {MinExp, -2 * MantBits, 1 - MantBits, 0, MaxExp}
Exps == {e \in MinExp..MaxExp : \E c \in KeyExps : e - c \in (-ExpSpread)..ExpSpread}
Mants == {Pow2(MantBits - 1), Pow2(MantBits - 1) + 1, 3 * Pow2(MantBits - 2), Pow2(MantBits) - 1}
Distances == {F32Zero, <<1, MinExp>>, <<3, MinExp>>} \cup (Mants \X Exps)

\* the command loop of vector_db.py when it is not running
ReplIdle ==
    /\ corpus = {} /\ database_map = [m \in Models |-> NoDB] /\ active_db = None
    /\ pc = "off" /\ cur = NoBuild /\ events = <<>> /\ output = NoOutput
    /\ builds = 0 /\ muts = 0

ScoreIdle == ReplIdle /\ ChatIdle /\ CrawlIdle /\ SessIdle

ScoreInit ==
    /\ ScoreIdle
    /\ dist \in Distances \X Distances
    /\ score = <<>>

Convert ==
    /\ score = <<>>
    /\ dist # <<>>
    /\ score' = <<ScoreOf(dist[1]), ScoreOf(dist[2])>>
    /\ UNCHANGED <<dist, replVars, chatVars, crawlVars, sessVars>>

ScoreNext == Convert

SpecScore == ScoreInit /\ [][ScoreNext]_vars


---------------------------------------------------------------------------
(* The corpus store and the embedding provider.                            *)

\* a Page's content column, as a text token (dataset.py:52)
PageContent(id) == id

\* the texts a query may carry: every page's content and two texts no page has
Texts == 0..(MaxId + 1)

\* ollama.embed for one input string (embedding.py:34, 44): a deterministic
\* model maps equal texts to equal vectors of the model's dimension
EmbedVec(model, text) ==
    IF model = "m1" THEN <<text>> ELSE <<text, text % 2>>

ModelDim(model) == Len(EmbedVec(model, 0))

\* what one call of the provider does: answer, fail, or answer with a vector
\* count that differs from the number of inputs
ProviderOutcomes == {"ok", "error", "miscount"}

\* the rows of the response to a batch of pages (embedding.py:33-35)
ResponseRows(model, pages, outcome) ==
    LET rows == [i \in 1..Len(pages) |-> EmbedVec(model, PageContent(pages[i]))]
    IN IF outcome = "miscount" THEN Append(rows, rows[Len(rows)]) ELSE rows

SetMax(S) == CHOOSE x \in S : \A y \in S : y <= x
SetMin(S) == CHOOSE x \in S : \A y \in S : x <= y

RECURSIVE SeqDesc(_)
SeqDesc(S) == IF S = {} THEN <<>> ELSE <<SetMax(S)>> \o SeqDesc(S \ {SetMax(S)})

RECURSIVE SeqAsc(_)
SeqAsc(S) == IF S = {} THEN <<>> ELSE <<SetMin(S)>> \o SeqAsc(S \ {SetMin(S)})

Range(s) == {s[i] : i \in 1..Len(s)}

Take(s, n) == SubSeq(s, 1, MinOf(n, Len(s)))

\* embedding.py:58 with != in the place of >
FetchPageNotCursor(corp, last_id, batch_size) ==
    Take(SeqDesc({i \in corp : i # last_id}), batch_size)

\* embedding.py:56-61  select(Page).where(Page.id > last_id)
\*                     .order_by(Page.id.desc()).limit(batch_size)
FetchPage(corp, last_id, batch_size) ==
    Take(SeqDesc({i \in corp : i > last_id}), batch_size)

\* embedding.py:62 with the cursor set one below the last row of the page
NextCursorBelowLast(pages) == pages[Len(pages)] - 1

\* embedding.py:62  last_id = pages[-1].id
NextCursor(pages) == pages[Len(pages)]

\* vector_db.py:23-24  session.scalar(select(Page).limit(1)): the first row of
\* the table scan; 0 stands for None
SamplePage(corp) == IF corp = {} THEN 0 ELSE SetMin(corp)

\* vector_db.py:25 with the test dropped
ProbeNeverEmpty(sample_page) == FALSE

\* vector_db.py:25  if not sample_page
ProbeEmpty(sample_page) == sample_page = 0

---------------------------------------------------------------------------
(* The command loop of vector_db.py and the state it starts in.            *)

Event(name, ids) == [ev |-> name, ids |-> ids]

Init ==
    /\ corpus \in {1..n : n \in 0..MaxId}
    /\ database_map = [m \in Models |-> NoDB]
    /\ active_db = None
    /\ pc = "idle"
    /\ cur = NoBuild
    /\ events = <<>>
    /\ output = NoOutput
    /\ builds = 0
    /\ muts = 0
    /\ dist = <<>>
    /\ score = <<>>
    /\ ChatIdle /\ CrawlIdle /\ SessIdle

\* the points at which a write of another process is taken to fall: before a
\* command is read and before a page is fetched, the only steps that read the
\* page table (a write that falls during any other step has the effect of
\* one at the next such point)
Running == pc \in {"idle", "fetch"}

\* vector_db.py:110-112  the loop prompts for the next command
Prompt ==
    /\ pc = "report"
    /\ pc' = "idle"
    /\ output' = NoOutput
    /\ events' = <<>>
    /\ UNCHANGED <<corpus, database_map, active_db, cur, builds, muts, scoreVars, chatVars, crawlVars, sessVars>>

\* vector_db.py:112-117  a command line is read and parsed
ReadCmd == pc = "idle"

\* another process (the crawler, crawler.py:62-70) stores a page
InsertPage ==
    /\ Running
    /\ muts < MaxMuts
    /\ \E id \in Ids \ corpus :
         /\ corpus' = corpus \cup {id}
         /\ events' = IF pc = "idle" THEN events ELSE Append(events, Event("insert", <<id>>))
    /\ muts' = muts + 1
    /\ UNCHANGED <<database_map, active_db, pc, cur, output, builds, scoreVars, chatVars, crawlVars, sessVars>>

\* another process deletes a page
DeletePage ==
    /\ Running
    /\ muts < MaxMuts
    /\ \E id \in corpus :
         /\ corpus' = corpus \ {id}
         /\ events' = IF pc = "idle" THEN events ELSE Append(events, Event("delete", <<id>>))
    /\ muts' = muts + 1
    /\ UNCHANGED <<database_map, active_db, pc, cur, output, builds, scoreVars, chatVars, crawlVars, sessVars>>

\* vector_db.py:114-116  a line that does not start with '/'
CmdInvalid ==
    /\ ReadCmd
    /\ events' = <<>>
    /\ output' = [cmd |-> "invalid", status |-> "error"]
    /\ pc' = "report"
    /\ UNCHANGED <<corpus, database_map, active_db, cur, builds, muts, scoreVars, chatVars, crawlVars, sessVars>>

\* vector_db.py:118-119
CmdHelp ==
    /\ ReadCmd
    /\ events' = <<>>
    /\ output' = [cmd |-> "help", status |-> "ok"]
    /\ pc' = "report"
    /\ UNCHANGED <<corpus, database_map, active_db, cur, builds, muts, scoreVars, chatVars, crawlVars, sessVars>>

\* vector_db.py:70-71  VectorDB.__len__
VectorDBLen(db) == db.len

\* vector_db.py:120-126
CmdShow ==
    /\ ReadCmd
    /\ events' = <<>>
    /\ output' = [cmd |-> "show", status |-> "ok",
                  active |-> active_db,
                  sizes |-> [m \in {x \in Models : database_map[x].built}
                                |-> VectorDBLen(database_map[m])]]
    /\ pc' = "report"
    /\ UNCHANGED <<corpus, database_map, active_db, cur, builds, muts, scoreVars, chatVars, crawlVars, sessVars>>

\* vector_db.py:128-130 dropped: the model is selected whether or not it has
\* an index
CmdSelectUnchecked ==
    /\ ReadCmd
    /\ events' = <<>>
    /\ \E model \in Models :
         /\ active_db' = model
         /\ output' = [cmd |-> "select", status |-> "ok", model |-> model]
    /\ pc' = "report"
    /\ UNCHANGED <<corpus, database_map, cur, builds, muts, scoreVars, chatVars, crawlVars, sessVars>>

\* vector_db.py:127-131
CmdSelect ==
    /\ ReadCmd
    /\ events' = <<>>
    /\ \E model \in Models :
         IF ~database_map[model].built
         THEN /\ output' = [cmd |-> "select", status |-> "error", model |-> model]
              /\ UNCHANGED active_db
         ELSE /\ active_db' = model
              /\ output' = [cmd |-> "select", status |-> "ok", model |-> model]
    /\ pc' = "report"
    /\ UNCHANGED <<corpus, database_map, cur, builds, muts, scoreVars, chatVars, crawlVars, sessVars>>

\* vector_db.py:145-147
CmdExit ==
    /\ ReadCmd
    /\ events' = <<>>
    /\ pc' = "exited"
    /\ output' = [cmd |-> "exit", status |-> "ok"]
    /\ UNCHANGED <<corpus, database_map, active_db, cur, builds, muts, scoreVars, chatVars, crawlVars, sessVars>>

---------------------------------------------------------------------------
(* /index: VectorDB.__init__, _build_index and the embed_db generator.     *)

\* the uncaught exception ends the process (no handler in vector_db.py:110-147)
\* vector_db.py:133 with the half-built object stored all the same
MapAfterAbortKeepsPartial(map, c) ==
    IF c.building /\ c.allocated THEN [map EXCEPT ![c.embedding_model] = c.self] ELSE map

\* vector_db.py:133 when the constructor raised: the assignment is not reached
MapAfterAbort(map, c) == map

\* the uncaught exception ends the process (no handler in vector_db.py:110-147)
Crash(cmd, err) ==
    /\ pc' = "crashed"
    /\ output' = [cmd |-> cmd, status |-> err]
    /\ database_map' = MapAfterAbort(database_map, cur)

\* vector_db.py:133  database_map[args.model] = VectorDB(...), constructor returned
MapAfterBuild(map, c) == [map EXCEPT ![c.embedding_model] = c.self]

\* vector_db.py:132-133, 23-26  the command is read, the probe query runs
IndexStart ==
    /\ ReadCmd
    /\ builds < MaxBuilds
    /\ builds' = builds + 1
    /\ \E model \in Models, batch_size \in 1..MaxBatch :
         LET sample_page == SamplePage(corpus)
         IN /\ events' = <<Event("probe", SeqAsc(corpus))>>
            /\ IF ProbeEmpty(sample_page)
               THEN /\ Crash("index", "ValueError")
                    /\ cur' = NoBuild
               ELSE /\ pc' = "probe_embed"
                    /\ output' = NoOutput
                    /\ UNCHANGED database_map
                    /\ cur' = [building |-> TRUE, embedding_model |-> model,
                               batch_size |-> batch_size, sample_page |-> sample_page,
                               allocated |-> FALSE]
    /\ UNCHANGED <<corpus, active_db, muts, scoreVars, chatVars, crawlVars, sessVars>>

\* vector_db.py:28-37  embed the sample page, allocate the index, start the scan
ProbeEmbed ==
    /\ pc = "probe_embed"
    /\ \E outcome \in ProviderOutcomes :
         /\ events' = Append(events, Event("embed", <<cur.sample_page>>))
         /\ IF outcome = "error"
            THEN /\ Crash("index", "ProviderError")
                 /\ UNCHANGED cur
            ELSE /\ pc' = "fetch"
                 /\ UNCHANGED <<output, database_map>>
                 /\ cur' = [building |-> TRUE, embedding_model |-> cur.embedding_model,
                            batch_size |-> cur.batch_size, allocated |-> TRUE,
                            self |-> [built |-> TRUE,
                                      embedding_model |-> cur.embedding_model,
                                      embedding_dim |-> ModelDim(cur.embedding_model),
                                      index |-> <<>>, len |-> 0],
                            last_id |-> 0, pages |-> <<>>, rows |-> <<>>]
    /\ UNCHANGED <<corpus, active_db, builds, muts, scoreVars, chatVars, crawlVars, sessVars>>

\* embedding.py:56-62  the generator asks for the next page of rows; an empty
\* page ends the scan, the constructor returns and vector_db.py:133-134 runs
Fetch ==
    /\ pc = "fetch"
    /\ LET pages == FetchPage(corpus, cur.last_id, cur.batch_size)
       IN /\ events' = Append(events, Event("fetch", pages))
          /\ IF pages = <<>>
             THEN /\ database_map' = MapAfterBuild(database_map, cur)
                  /\ cur' = NoBuild
                  /\ pc' = "report"
                  /\ output' = [cmd |-> "index", status |-> "ok",
                                model |-> cur.embedding_model,
                                batch_size |-> cur.batch_size]
             ELSE /\ cur' = [cur EXCEPT !.last_id = NextCursor(pages), !.pages = pages]
                  /\ pc' = "embed"
                  /\ UNCHANGED <<database_map, output>>
    /\ UNCHANGED <<corpus, active_db, builds, muts, scoreVars, chatVars, crawlVars, sessVars>>

\* embedding.py:63 with the batches collected before any is handed on: the
\* generator goes on to its next fetch with the batch not yet inserted
EmbedBatchCollected ==
    /\ pc = "embed"
    /\ \E outcome \in ProviderOutcomes :
         /\ events' = Append(events, Event("embed", cur.pages))
         /\ IF outcome = "error"
            THEN /\ Crash("index", "ProviderError")
                 /\ UNCHANGED cur
            ELSE /\ cur' = [cur EXCEPT
                             !.rows = ResponseRows(cur.embedding_model, cur.pages, outcome)]
                 /\ pc' = "fetch"
                 /\ UNCHANGED <<output, database_map>>
    /\ UNCHANGED <<corpus, active_db, builds, muts, scoreVars, chatVars, crawlVars, sessVars>>

\* embedding.py:63, 33-37  embed_page_batch on the fetched page
EmbedBatch ==
    /\ pc = "embed"
    /\ \E outcome \in ProviderOutcomes :
         /\ events' = Append(events, Event("embed", cur.pages))
         /\ IF outcome = "error"
            THEN /\ Crash("index", "ProviderError")
                 /\ UNCHANGED cur
            ELSE /\ cur' = [cur EXCEPT
                             !.rows = ResponseRows(cur.embedding_model, cur.pages, outcome)]
                 /\ pc' = "insert"
                 /\ UNCHANGED <<output, database_map>>
    /\ UNCHANGED <<corpus, active_db, builds, muts, scoreVars, chatVars, crawlVars, sessVars>>

\* vector_db.py:49 counting a full batch whatever the page holds
AddedCountFullBatch(pages, batch_size) == batch_size

\* vector_db.py:49  self._len += len(batch.pages)
AddedCount(pages, batch_size) == Len(pages)

\* vector_db.py:48 with add in the place of add_with_ids: faiss numbers the
\* entries by their position in the index
IndexAddSequentialIds(index, rows, ids) ==
    index \o [i \in 1..Len(ids) |-> [id |-> Len(index) + i - 1, vec |-> rows[i]]]

\* vector_db.py:48  add_with_ids appends one entry per row, keyed by ids; faiss
\* refuses (AssertionError) when the matrix and the ids differ in length
IndexAdd(index, rows, ids) ==
    index \o [i \in 1..Len(ids) |-> [id |-> ids[i], vec |-> rows[i]]]

\* vector_db.py:47-49  one turn of the loop of _build_index
Insert ==
    /\ pc = "insert"
    /\ IF Len(cur.rows) # Len(cur.pages)
       THEN /\ Crash("index", "AssertionError")
            /\ events' = events
            /\ UNCHANGED cur
       ELSE /\ cur' = [cur EXCEPT
                        !.self.index = IndexAdd(@, cur.rows, cur.pages),
                        !.self.len = @ + AddedCount(cur.pages, cur.batch_size)]
            /\ events' = Append(events, Event("add", cur.pages))
            /\ pc' = "fetch"
            /\ UNCHANGED <<output, database_map>>
    /\ UNCHANGED <<corpus, active_db, builds, muts, scoreVars, chatVars, crawlVars, sessVars>>

---------------------------------------------------------------------------
(* /query: VectorDB.search.                                                *)

RECURSIVE SqDist(_, _)
SqDist(u, v) ==
    IF u = <<>> THEN 0
    ELSE (u[1] - v[1]) * (u[1] - v[1]) + SqDist(Tail(u), Tail(v))

\* the entry of the index that comes first among the positions in rest: least
\* squared L2 distance to qv; equal distances in the order the index keeps
\* them, which faiss leaves open (tie is "first" or "last")
Nearest(index, qv, rest, tie) ==
    CHOOSE i \in rest : \A j \in rest \ {i} :
        LET di == SqDist(index[i].vec, qv)
            dj == SqDist(index[j].vec, qv)
        IN di < dj \/ (di = dj /\ IF tie = "first" THEN i < j ELSE i > j)

\* the float32 values of the squared distances between the vectors of Texts,
\* and their scores, computed once
MaxSqDist == (MaxId + 1) * (MaxId + 1) + 1
DistOfInt == [n \in 0..MaxSqDist |-> F32OfInt(n)]
ScoreTable == [d \in {DistOfInt[n] : n \in 0..MaxSqDist} \cup {F32Max} |-> ScoreOf(d)]

\* IndexIDMap(IndexFlatL2).search for one query row (vector_db.py:61): k
\* (distance, id) pairs by ascending distance, padded with (FLT_MAX, -1)
\* when the index holds fewer than k entries
RECURSIVE IndexSearch(_, _, _, _, _)
IndexSearch(index, qv, rest, k, tie) ==
    IF k = 0 THEN <<>>
    ELSE IF rest = {} THEN <<[d |-> F32Max, id |-> -1]>> \o IndexSearch(index, qv, rest, k - 1, tie)
    ELSE LET i == Nearest(index, qv, rest, tie)
         IN <<[d |-> DistOfInt[SqDist(index[i].vec, qv)], id |-> index[i].id]>>
            \o IndexSearch(index, qv, rest \ {i}, k - 1, tie)

\* vector_db.py:63-67  select(Page).where(Page.id.in_(ids)): the stored pages
\* among ids, each once, in the order the table scan gives them (by rowid)
ResolvePages(corp, ids) == SeqAsc(Range(ids) \cap corp)

\* vector_db.py:68  zip(scores, pages)
Zip(scores, pages) ==
    [i \in 1..MinOf(Len(scores), Len(pages)) |-> [score |-> scores[i], page |-> pages[i]]]

\* vector_db.py:59-68  what search returns, given the provider answered
SearchResults(db, corp, query, top_k, tie) ==
    LET qv == EmbedVec(db.embedding_model, query)
        hits == IndexSearch(db.index, qv, DOMAIN db.index, top_k, tie)
        scores == [i \in 1..Len(hits) |-> ScoreTable[hits[i].d]]
        ids == [i \in 1..Len(hits) |-> hits[i].id]
    IN [hits |-> hits, results |-> Zip(scores, ResolvePages(corp, ids))]

\* vector_db.py:61 with add in the place of search
SelfAfterSearchAdds(db, query) ==
    [db EXCEPT !.index = Append(@, [id |-> 0, vec |-> EmbedVec(db.embedding_model, query)])]

\* vector_db.py:59-68  search assigns no attribute of self
SelfAfterSearch(db, query) == db

\* vector_db.py:135-144
CmdQuery ==
    /\ ReadCmd
    /\ UNCHANGED <<corpus, active_db, cur, builds, muts, scoreVars, chatVars, crawlVars, sessVars>>
    /\ IF active_db = None
       THEN /\ output' = [cmd |-> "query", status |-> "error"]
            /\ events' = <<>>
            /\ pc' = "report"
            /\ UNCHANGED database_map
       ELSE \E query \in Texts, top_k \in 1..MaxTopK, outcome \in {"ok", "error"},
               tie \in {"first", "last"} :
              LET db == database_map[active_db]
              IN /\ events' = <<Event("embed_query", <<query>>)>>
                 /\ IF outcome = "error"
                    THEN /\ pc' = "crashed"
                         /\ output' = [cmd |-> "query", status |-> "ProviderError"]
                         /\ database_map' =
                              [database_map EXCEPT ![active_db] = SelfAfterSearch(db, query)]
                    ELSE /\ output' = [cmd |-> "query", status |-> "ok",
                                       db |-> db, query |-> query, top_k |-> top_k,
                                       corpus |-> corpus]
                                      @@ SearchResults(db, corpus, query, top_k, tie)
                         /\ database_map' =
                              [database_map EXCEPT ![active_db] = SelfAfterSearch(db, query)]
                         /\ pc' = "report"

---------------------------------------------------------------------------

Next ==
    \/ Prompt
    \/ CmdInvalid
    \/ CmdHelp
    \/ CmdShow
    \/ CmdSelect
    \/ CmdExit
    \/ CmdQuery
    \/ IndexStart
    \/ ProbeEmbed
    \/ Fetch
    \/ EmbedBatch
    \/ Insert
    \/ InsertPage
    \/ DeletePage

Spec == Init /\ [][Next]_vars

---------------------------------------------------------------------------
(* One build on its own, from the entry of _build_index (vector_db.py:47   *)
(* calls embed_db, embedding.py:54 sets last_id = 0), over any page table  *)
(* the store can hold, with the writes of other processes between the      *)
(* page fetches. The steps of the build are one thread of control: each    *)
(* runs once it can, which the weak fairness conditions state.             *)

ScanInit ==
    /\ corpus \in SUBSET Ids
    /\ database_map = [m \in Models |-> NoDB]
    /\ active_db = None
    /\ pc = "fetch"
    /\ \E model \in Models, batch_size \in 1..MaxBatch :
         cur = [building |-> TRUE, embedding_model |-> model,
                batch_size |-> batch_size, allocated |-> TRUE,
                self |-> [built |-> TRUE, embedding_model |-> model,
                          embedding_dim |-> ModelDim(model),
                          index |-> <<>>, len |-> 0],
                last_id |-> 0, pages |-> <<>>, rows |-> <<>>]
    /\ events = <<>>
    /\ output = NoOutput
    /\ builds = 1
    /\ muts = 0
    /\ dist = <<>>
    /\ score = <<>>
    /\ ChatIdle /\ CrawlIdle /\ SessIdle

ScanNext ==
    \/ Fetch
    \/ EmbedBatch
    \/ Insert
    \/ InsertPage
    \/ DeletePage

SpecScan ==
    /\ ScanInit
    /\ [][ScanNext]_vars
    /\ WF_vars(Fetch)
    /\ WF_vars(EmbedBatch)
    /\ WF_vars(Insert)

---------------------------------------------------------------------------
(* messaging.py: send_message and the chat loop, over the chat store.      *)

MaxChats == 2       \* chat ids are 1..MaxChats
MaxSends == 2       \* send_message calls in one run

ChatIds == 1..MaxChats
Inputs == {"q1", "q2"}
NoChat == [stored |-> FALSE]

\* None where a chat id is expected (chat ids are positive), and a missing or
\* empty text, which Python takes as false
NoId == 0
NoText == <<>>
NoSend == [pc |-> "idle"]

\* prompts/__init__.py:5, messaging.py:38  SYSTEM_PROMPT.template
SystemPrompt == <<"system.md">>

\* messaging.py:40  USER_PROMPT.format(content=message)
UserPrompt(message) == <<"user.md", message>>

\* chat.py:30-40  a Message; chat_id is None (NoId) until a flush has stored it
Message(role, content, of_chat) == [role |-> role, content |-> content, chat_id |-> of_chat]

\* messaging.py:17, 19  OllamaMessage(role=..., content=...)
OllamaMessage(role, content) == [role |-> role, content |-> content]

\* messaging.py:18-19 with the messages taken newest first
get_chat_history_reversed(chat) ==
    (IF chat.messages = <<>> /\ chat.system_prompt # NoText
     THEN <<OllamaMessage("system", chat.system_prompt)>> ELSE <<>>)
    \o [i \in 1..Len(chat.messages) |->
          OllamaMessage(chat.messages[Len(chat.messages) + 1 - i].role,
                        chat.messages[Len(chat.messages) + 1 - i].content)]

\* messaging.py:14-20
get_chat_history(chat) ==
    (IF chat.messages = <<>> /\ chat.system_prompt # NoText
     THEN <<OllamaMessage("system", chat.system_prompt)>> ELSE <<>>)
    \o [i \in 1..Len(chat.messages) |->
          OllamaMessage(chat.messages[i].role, chat.messages[i].content)]

\* a chat as an earlier run or another writer left it in the store: with or
\* without a system prompt, empty or holding one exchange
StoredChats(c) ==
    {[stored |-> TRUE, system_prompt |-> sp, messages |-> ms] :
        sp \in {NoText, SystemPrompt},
        ms \in {<<>>, <<Message("user", UserPrompt("q0"), c),
                         Message("assistant", <<"a0">>, c)>>}}

ChatInit ==
    /\ ReplIdle /\ CrawlIdle /\ SessIdle
    /\ dist = <<>> /\ score = <<>>
    /\ chat_table \in {t \in [ChatIds -> {NoChat} \cup UNION {StoredChats(c) : c \in ChatIds}] :
                          \A c \in ChatIds : t[c] = NoChat \/ t[c] \in StoredChats(c)}
    /\ send = NoSend
    /\ chat_id = NoId
    /\ printed = <<>>
    /\ sends = 0

\* messaging.py:31-41  the call opens its session, loads or makes the chat and
\* builds the history; caller is the chat loop (messaging.py:63-71, which
\* passes its chat_id) or any other caller of send_message
SendStart ==
    /\ send = NoSend
    /\ sends < MaxSends
    /\ sends' = sends + 1
    /\ \E caller \in {"loop", "api"}, message \in Inputs :
       \E arg \in (IF caller = "loop" THEN {chat_id} ELSE {NoId} \cup ChatIds) :
         IF arg # NoId /\ ~chat_table[arg].stored
         THEN send' = [pc |-> "raised", error |-> "ValueError", caller |-> caller,
                       chat_id |-> arg, message |-> message, sent |-> <<>>]
         ELSE LET chat == IF arg = NoId
                          THEN [persistent |-> FALSE, id |-> NoId,
                                system_prompt |-> SystemPrompt, messages |-> <<>>]
                          ELSE [persistent |-> TRUE, id |-> arg,
                                system_prompt |-> chat_table[arg].system_prompt,
                                messages |-> chat_table[arg].messages]
                  user_prompt_with_query == UserPrompt(message)
              IN send' = [pc |-> "call", caller |-> caller, chat_id |-> arg,
                          message |-> message, chat |-> chat, loaded |-> chat.messages,
                          chat_history |-> Append(get_chat_history(chat),
                                             OllamaMessage("user", user_prompt_with_query)),
                          sent |-> <<>>]
    /\ UNCHANGED <<chat_table, chat_id, printed, replVars, scoreVars, crawlVars, sessVars>>

\* messaging.py:42  the chat model answers or the call raises; an exception
\* leaves the session block by the rollback of db.py:46-48
ChatCall ==
    /\ send.pc = "call"
    /\ \E outcome \in {"ok", "error"}, reply \in {<<"a1">>} :
         IF outcome = "error"
         THEN send' = [pc |-> "raised", error |-> "ProviderError", caller |-> send.caller,
                       chat_id |-> send.chat_id, message |-> send.message,
                       sent |-> send.chat_history]
         ELSE send' = [send EXCEPT !.pc = "commit", !.sent = send.chat_history]
                      @@ [response |-> OllamaMessage("assistant", reply)]
    /\ UNCHANGED <<chat_table, chat_id, printed, sends, replVars, scoreVars, crawlVars, sessVars>>

\* messaging.py:43-46  chat.messages.extend([user message, response message])
Extended(chat, message, response) ==
    chat.messages \o <<Message("user", UserPrompt(message), NoId),
                       Message(response.role, response.content, NoId)>>

\* messaging.py:47  session.commit(): the unit of work holds the chat only if
\* line 34 loaded it (line 38 makes a Chat that no session.add puts into the
\* session), and the new messages only through a chat it holds; the result is
\* the id under which the chat is stored after the commit, None if it is not
ChatIdAtCommit(chat, table) == IF chat.persistent THEN chat.id ELSE NoId

\* messaging.py:43-48  extend, commit and return chat.messages[-1]
SendCommit ==
    /\ send.pc = "commit"
    /\ LET id == ChatIdAtCommit(send.chat, chat_table)
           messages == Extended(send.chat, send.message, send.response)
           flushed == [i \in 1..Len(messages) |-> [messages[i] EXCEPT !.chat_id = id]]
       IN /\ chat_table' =
               IF id = NoId THEN chat_table
               ELSE [chat_table EXCEPT ![id] =
                       [stored |-> TRUE, system_prompt |-> send.chat.system_prompt,
                        messages |-> flushed]]
          /\ send' = [send EXCEPT !.pc = "returned", !.chat.messages = flushed]
                      @@ [result |-> flushed[Len(flushed)]]
    /\ UNCHANGED <<chat_id, printed, sends, replVars, scoreVars, crawlVars, sessVars>>

\* messaging.py:72-73  the loop prints the response and keeps its chat_id;
\* another caller just gets the message
SendReturn ==
    /\ send.pc = "returned"
    /\ IF send.caller = "loop"
       THEN /\ printed' = Append(printed, send.result)
            /\ chat_id' = send.result.chat_id
       ELSE UNCHANGED <<printed, chat_id>>
    /\ send' = NoSend
    /\ UNCHANGED <<chat_table, sends, replVars, scoreVars, crawlVars, sessVars>>

\* a caller other than the loop handles the exception and may call again (the
\* loop has no handler: the exception ends the process)
SendRaised ==
    /\ send.pc = "raised"
    /\ send.caller = "api"
    /\ send' = NoSend
    /\ UNCHANGED <<chat_table, chat_id, printed, sends, replVars, scoreVars, crawlVars, sessVars>>

ChatNext ==
    \/ SendStart
    \/ ChatCall
    \/ SendCommit
    \/ SendReturn
    \/ SendRaised

SpecChat == ChatInit /\ [][ChatNext]_vars

---------------------------------------------------------------------------
(* crawlers/cp_algo/crawler.py: crawl, its tasks and the semaphore, over   *)
(* the URL and Page rows of the store.                                     *)

MaxUrls == 3        \* urls are 1..MaxUrls
MaxPool == 2        \* settings MAX_POOL_SIZE ranges over 1..MaxPool

Urls == 1..MaxUrls

\* the lists crawl may be given: the urls of a set in order, alone or with one
\* of them a second time (the urls are symmetric; which of them the store
\* holds is chosen freely in CrawlInit)
InputLists ==
    UNION {{SeqAsc(S) \o d : d \in {<<>>} \cup {<<u>> : u \in S}} : S \in SUBSET Urls}

\* dataset.py:39-45  URL.get_or_create: the stored row if there is one; else a
\* new URL object that no session.add puts into the session, so that the
\* flush of line 42 stores nothing and the object keeps id None
get_or_create(url, table) ==
    IF table[url] # "absent"
    THEN <<[persistent |-> TRUE, id |-> url, crawl_status |-> table[url]], FALSE>>
    ELSE <<[persistent |-> FALSE, id |-> NoId, crawl_status |-> "unset"], TRUE>>

CrawlInit ==
    /\ ReplIdle /\ ChatIdle /\ SessIdle
    /\ dist = <<>> /\ score = <<>>
    /\ url_table \in [Urls -> {"absent", "PENDING"}]
    /\ page_table = <<>>
    /\ tasks = <<>>
    /\ \E size \in 1..MaxPool, input \in InputLists :
         /\ semaphore = [value |-> size, waiters |-> <<>>]
         /\ crawl = [pc |-> "idle", MAX_POOL_SIZE |-> size, input |-> input]

\* crawler.py:43-52  the urls are made unique, looked up and queued, the
\* change is committed and one task is made for each url
CrawlStart ==
    /\ crawl.pc = "idle"
    /\ LET urls == Range(crawl.input)
           url_map == [u \in urls |->
                         [get_or_create(u, url_table)[1] EXCEPT !.crawl_status = "QUEUED"]]
       IN /\ url_table' = [u \in Urls |->
                              IF u \in urls /\ url_map[u].persistent
                              THEN url_map[u].crawl_status ELSE url_table[u]]
          /\ tasks' = [u \in urls |-> "created"]
          /\ crawl' = [pc |-> "gather", MAX_POOL_SIZE |-> crawl.MAX_POOL_SIZE,
                       given |-> Len(crawl.input), urls |-> urls, url_map |-> url_map,
                       fetched |-> [u \in urls |-> 0], completed |-> <<>>, taken |-> 0,
                       success_count |-> 0, exception_count |-> 0]
    /\ UNCHANGED <<page_table, semaphore, replVars, scoreVars, chatVars, sessVars>>

TasksIn(state) == {u \in DOMAIN tasks : tasks[u] = state}

\* crawler.py:27  async with semaphore, on the way in: Semaphore.acquire takes
\* a slot if one is free and no task waits, else the task joins the waiters.
\* The tasks get their first turn in the order of the list of line 52.
TaskBegin ==
    /\ crawl.pc \in {"gather", "crashed"}
    /\ TasksIn("created") # {}
    /\ LET u == SetMin(TasksIn("created"))
       IN IF semaphore.value > 0 /\ semaphore.waiters = <<>>
          THEN /\ semaphore' = [semaphore EXCEPT !.value = @ - 1]
               /\ tasks' = [tasks EXCEPT ![u] = "inside"]
               /\ crawl' = [crawl EXCEPT !.fetched[u] = @ + 1]
          ELSE /\ semaphore' = [semaphore EXCEPT !.waiters = Append(@, u)]
               /\ tasks' = [tasks EXCEPT ![u] = "waiting"]
               /\ UNCHANGED crawl
    /\ UNCHANGED <<url_table, page_table, replVars, scoreVars, chatVars, sessVars>>

\* crawler.py:27-39  the fetch and the parse of one task end, well or by an
\* exception; on the way out of async with semaphore the slot is released in
\* either case, and Semaphore.release gives it to the longest waiting task
TaskFinish ==
    /\ crawl.pc \in {"gather", "crashed"}
    /\ TasksIn("created") = {}
    /\ \E u \in TasksIn("inside"), outcome \in {"ok", "fetch_error", "parse_error"} :
         LET next == IF semaphore.waiters # <<>> THEN {Head(semaphore.waiters)} ELSE {}
         IN /\ semaphore' = IF next = {}
                            THEN [semaphore EXCEPT !.value = @ + 1]
                            ELSE [semaphore EXCEPT !.waiters = Tail(@)]
            /\ tasks' = [v \in DOMAIN tasks |->
                           IF v = u THEN (IF outcome = "ok" THEN "ok" ELSE "failed")
                           ELSE IF v \in next THEN "inside" ELSE tasks[v]]
            /\ crawl' = [crawl EXCEPT
                           !.completed = Append(@, u),
                           !.fetched = [v \in DOMAIN @ |->
                                          IF v \in next THEN @[v] + 1 ELSE @[v]]]
    /\ UNCHANGED <<url_table, page_table, replVars, scoreVars, chatVars, sessVars>>

\* crawler.py:55-71  one turn of the as_completed loop on the task that ended
\* first: a failure is counted; a success adds the Page, marks the url DONE,
\* is counted and is committed. Page.url_id is not nullable (dataset.py:51),
\* so the commit of a Page made from a URL object without id raises, the
\* session is rolled back (db.py:46-48) and crawl ends by that exception.
Consume ==
    /\ crawl.pc = "gather"
    /\ crawl.completed # <<>>
    /\ LET u == Head(crawl.completed)
           item == crawl.url_map[u]
           rest == [crawl EXCEPT !.completed = Tail(@), !.taken = @ + 1]
       IN IF tasks[u] = "failed"
          THEN /\ crawl' = [rest EXCEPT !.exception_count = @ + 1]
               /\ UNCHANGED <<url_table, page_table>>
          ELSE IF item.id = NoId
          THEN /\ crawl' = [rest EXCEPT !.pc = "crashed", !.success_count = @ + 1,
                                         !.url_map[u].crawl_status = "DONE"]
               /\ UNCHANGED <<url_table, page_table>>
          ELSE /\ crawl' = [rest EXCEPT !.success_count = @ + 1,
                                         !.url_map[u].crawl_status = "DONE"]
               /\ page_table' = Append(page_table, [url_id |-> item.id, content |-> u])
               /\ url_table' = [url_table EXCEPT ![u] = "DONE"]
    /\ UNCHANGED <<tasks, semaphore, replVars, scoreVars, chatVars, sessVars>>

\* crawler.py:72  every task has been taken: the totals are logged, crawl returns
CrawlEnd ==
    /\ crawl.pc = "gather"
    /\ crawl.taken = Cardinality(crawl.urls)
    /\ crawl' = [crawl EXCEPT !.pc = "done"]
    /\ UNCHANGED <<url_table, page_table, tasks, semaphore, replVars, scoreVars, chatVars, sessVars>>

\* crawler.py:93  asyncio.run(crawl(urls)) when crawl raised: the tasks still
\* pending are cancelled; one that waits for the semaphore leaves the wait,
\* one inside the section releases its slot on the way out
Shutdown ==
    /\ crawl.pc = "crashed"
    /\ crawl' = [crawl EXCEPT !.pc = "closed"]
    /\ tasks' = [u \in DOMAIN tasks |->
                   IF tasks[u] \in {"created", "waiting", "inside"} THEN "cancelled"
                   ELSE tasks[u]]
    /\ semaphore' = [value |-> semaphore.value + Cardinality(TasksIn("inside")),
                     waiters |-> <<>>]
    /\ UNCHANGED <<url_table, page_table, replVars, scoreVars, chatVars, sessVars>>

CrawlNext ==
    \/ CrawlStart
    \/ TaskBegin
    \/ TaskFinish
    \/ Consume
    \/ CrawlEnd
    \/ Shutdown

SpecCrawl == CrawlInit /\ [][CrawlNext]_vars

---------------------------------------------------------------------------
(* db/db.py: the session context managers of DB, over the URL rows of the  *)
(* store, with URL.get_or_create among the calls of the body.              *)

MaxBlocks == 2      \* session blocks of one run
MaxOps == 2         \* calls the body of one block makes

\* the two context managers of DB
Kinds == {"session", "async_session"}

NoExc == "NoExc"

\* db.py:33, 46  what `except Exception` catches: KeyboardInterrupt is a
\* BaseException only
IsException(e) == e \in {"ValueError", "IntegrityError"}

\* the urls that have a row in the table
Stored(table) == {u \in Urls : table[u] # "absent"}

\* dataset.py:39  what a select of the session finds: the committed rows and
\* the rows its own transaction has flushed (autoflush is off, db.py:16)
Visible(s, table) == [u \in Urls |-> IF u \in s.flushed THEN "PENDING" ELSE table[u]]

\* dataset.py:30  unique_url_key: a flush of a row whose url is stored fails
FlushFails(s, table) == s.new \cap Stored(table) # {}

SessionInit ==
    /\ ReplIdle /\ ChatIdle
    /\ dist = <<>> /\ score = <<>>
    /\ url_table \in [Urls -> {"absent", "PENDING"}]
    /\ page_table = <<>> /\ tasks = <<>>
    /\ semaphore = [value |-> 0, waiters |-> <<>>] /\ crawl = [pc |-> "off"]
    /\ session = [pc |-> "none"] /\ calls = <<>> /\ blocks = <<>>

\* db.py:28, 41  the context is entered: a session is made and handed to the
\* body
SessionEnter ==
    /\ session.pc \in {"none", "exited"}
    /\ Len(blocks) < MaxBlocks
    /\ \E kind \in Kinds :
         session' = [kind |-> kind, pc |-> "body", state |-> "open",
                     new |-> {}, flushed |-> {}, before |-> url_table, ops |-> 0,
                     body |-> "running", thrown |-> NoExc,
                     commits |-> 0, committed |-> FALSE, rollbacks |-> 0]
    /\ UNCHANGED <<calls, blocks, crawlVars, replVars, scoreVars, chatVars>>

\* db.py:30, 43  the body adds a new URL object to the session
BodyAdd ==
    /\ session.pc = "body" /\ session.ops < MaxOps
    /\ \E u \in Urls \ (session.new \cup session.flushed) :
         session' = [session EXCEPT !.new = @ \cup {u}, !.ops = @ + 1]
    /\ UNCHANGED <<calls, blocks, crawlVars, replVars, scoreVars, chatVars>>

\* dataset.py:32-45  the body of an async block calls URL.get_or_create: the
\* select of line 39, and for a url it does not find the new object and the
\* flush of line 42, which writes the rows added before and raises if one of
\* them breaks unique_url_key
BodyGetOrCreate ==
    /\ session.pc = "body" /\ session.ops < MaxOps
    /\ session.kind = "async_session"
    /\ \E url \in Urls :
         LET res == get_or_create(url, Visible(session, url_table))
         IN IF res[2] /\ FlushFails(session, url_table)
            THEN /\ session' = [session EXCEPT !.ops = @ + 1, !.body = "IntegrityError",
                                               !.thrown = "IntegrityError",
                                               !.pc = "except"]
                 /\ calls' = Append(calls, [url |-> url, block |-> Len(blocks) + 1,
                                            existed |-> FALSE, returned |-> FALSE])
            ELSE /\ session' = [session EXCEPT
                                  !.ops = @ + 1,
                                  !.flushed = IF res[2] THEN @ \cup session.new ELSE @,
                                  !.new = IF res[2] THEN {} ELSE @]
                 /\ calls' = Append(calls, [url |-> url, block |-> Len(blocks) + 1,
                                            existed |-> url \in Stored(Visible(session, url_table)),
                                            returned |-> TRUE,
                                            item |-> res[1], created |-> res[2]])
    /\ UNCHANGED <<blocks, crawlVars, replVars, scoreVars, chatVars>>

\* db.py:30-32, 43-45  the body completes and control is back after the yield
BodyReturn ==
    /\ session.pc = "body"
    /\ session' = [session EXCEPT !.body = "ok", !.pc = "commit"]
    /\ UNCHANGED <<calls, blocks, crawlVars, replVars, scoreVars, chatVars>>

\* db.py:30, 33, 43, 46  the body raises and the exception is thrown in at the
\* yield: an Exception goes to the except clause, anything else to finally
BodyRaise ==
    /\ session.pc = "body"
    /\ \E e \in {"ValueError", "KeyboardInterrupt"} :
         session' = [session EXCEPT !.body = e, !.thrown = e,
                                    !.pc = IF IsException(e) THEN "except" ELSE "finally"]
    /\ UNCHANGED <<calls, blocks, crawlVars, replVars, scoreVars, chatVars>>

\* db.py:32, 45  commit: the rows of the session are flushed and the
\* transaction is committed, or the flush raises inside the try
SessionCommit ==
    /\ session.pc = "commit"
    /\ IF FlushFails(session, url_table)
       THEN /\ session' = [session EXCEPT !.commits = @ + 1, !.thrown = "IntegrityError",
                                          !.pc = "except"]
            /\ UNCHANGED url_table
       ELSE /\ url_table' = [u \in Urls |->
                               IF u \in session.new \cup session.flushed
                               THEN "PENDING" ELSE url_table[u]]
            /\ session' = [session EXCEPT !.commits = @ + 1, !.committed = TRUE,
                                          !.new = {}, !.flushed = {}, !.pc = "finally"]
    /\ UNCHANGED <<calls, blocks, page_table, tasks, semaphore, crawl,
                   replVars, scoreVars, chatVars>>

\* db.py:33-35, 46-48  rollback, then the caught exception is raised again
SessionExcept ==
    /\ session.pc = "except"
    /\ session' = [session EXCEPT !.rollbacks = @ + 1, !.new = {}, !.flushed = {},
                                  !.pc = "finally"]
    /\ UNCHANGED <<calls, blocks, crawlVars, replVars, scoreVars, chatVars>>

\* db.py:36-37, 49-50  finally: session() closes its session, which ends the
\* transaction and empties the session; async_session calls close() without
\* await, so the coroutine is made and dropped and the session stays as it is.
\* The block is left, by the exception in flight if there is one.
SessionFinally ==
    /\ session.pc = "finally"
    /\ session' = IF session.kind = "session"
                  THEN [session EXCEPT !.state = "closed", !.new = {}, !.flushed = {},
                                       !.pc = "exited"]
                  ELSE [session EXCEPT !.pc = "exited"]
    /\ blocks' = Append(blocks, [kind |-> session.kind, committed |-> session.committed,
                                 out |-> session.thrown])
    /\ UNCHANGED <<calls, crawlVars, replVars, scoreVars, chatVars>>

SessionNext ==
    \/ SessionEnter
    \/ BodyAdd
    \/ BodyGetOrCreate
    \/ BodyReturn
    \/ BodyRaise
    \/ SessionCommit
    \/ SessionExcept
    \/ SessionFinally

SpecSession == SessionInit /\ [][SessionNext]_vars

---------------------------------------------------------------------------
(* Properties.                                                             *)

\* a /index command has run to its end
BuildDone == pc = "report" /\ output.cmd = "index" /\ output.status = "ok"

\* no other process wrote to the page table while the command ran
Unmutated == \A i \in 1..Len(events) : events[i].ev \notin {"insert", "delete"}

EventsOf(name) == SelectSeq(events, LAMBDA e : e.ev = name)

\* the pages of the batches embed_db has yielded and the build has taken
Batches == [i \in 1..Len(EventsOf("add")) |-> EventsOf("add")[i].ids]

CeilDiv(n, b) == (n + b - 1) \div b

\* C1: over a corpus of N pages that no one writes to during the scan,
\* embed_db yields ceil(N / batch_size) batches, every page is in exactly
\* one batch, and every id of a batch is below every id of the next batch.
C1_Pagination ==
    (BuildDone /\ Unmutated) =>
        /\ Len(Batches) = CeilDiv(Cardinality(corpus), output.batch_size)
        /\ \A id \in corpus :
             Cardinality({<<j, i>> \in (1..Len(Batches)) \X (1..MaxId) :
                            i <= Len(Batches[j]) /\ Batches[j][i] = id}) = 1
        /\ \A j \in 1..(Len(Batches) - 1) :
             \A x \in Range(Batches[j]), y \in Range(Batches[j + 1]) : x < y

\* C2: after a build over an unchanging corpus of N pages, len(VectorDB) = N.
C2_BuildSize ==
    (BuildDone /\ Unmutated) =>
        VectorDBLen(database_map[output.model]) = Cardinality(corpus)

RECURSIVE SumLen(_)
SumLen(ss) == IF ss = <<>> THEN 0 ELSE Len(Head(ss)) + SumLen(Tail(ss))

\* C3: during and after a build, len(VectorDB) is the number of entries the
\* add_with_ids calls have put into the index.
C3_CountMatchesIndex ==
    /\ (cur.building /\ cur.allocated) =>
          /\ VectorDBLen(cur.self) = Len(cur.self.index)
          /\ VectorDBLen(cur.self) = SumLen(Batches)
    /\ \A m \in Models : database_map[m].built =>
          VectorDBLen(database_map[m]) = Len(database_map[m].index)
    /\ BuildDone => VectorDBLen(database_map[output.model]) = SumLen(Batches)

\* a batch shorter than batch_size has been added and counted
C3_Witness ==
    /\ pc = "fetch"
    /\ \E i \in 1..Len(Batches) : Len(Batches[i]) < cur.batch_size
    /\ VectorDBLen(cur.self) >= 2

\* C4: a build against an empty corpus raises the empty-corpus error before
\* any call of the provider and before an index is allocated.
C4_EmptyCorpusRaisesFirst ==
    (events # <<>> /\ events[1].ev = "probe" /\ events[1].ids = <<>>) =>
        /\ pc = "crashed"
        /\ output = [cmd |-> "index", status |-> "ValueError"]
        /\ Len(events) = 1
        /\ cur = NoBuild

C4_Witness ==
    /\ pc = "crashed"
    /\ output.status = "ValueError"
    /\ corpus = {}

\* C5: database_map gains or replaces an entry only in the step in which a
\* build has run to its end (the scan is exhausted), and the entry is then
\* the object that build made; a build that fails changes no entry.
C5_CommitOnlyCompleteBuild ==
    [][database_map' # database_map =>
         /\ pc = "fetch" /\ pc' = "report"
         /\ FetchPage(corpus, cur.last_id, cur.batch_size) = <<>>
         /\ database_map' = [database_map EXCEPT ![cur.embedding_model] = cur.self]]_vars

\* a rebuild failed with a part of its index filled; the earlier index of the
\* same model is still the entry of database_map
C5_Witness ==
    /\ pc = "crashed"
    /\ output = [cmd |-> "index", status |-> "ProviderError"]
    /\ cur.building /\ cur.allocated
    /\ cur.self.index # <<>>
    /\ database_map[cur.embedding_model].built
    /\ database_map[cur.embedding_model] # cur.self

QueryDone == pc = "report" /\ output.cmd = "query" /\ output.status = "ok"

\* the positions at which the index returned identifier id
HitsOf(id) == {j \in 1..Len(output.hits) : output.hits[j].id = id}

\* C6: search returns its pairs in the order the index produced them, and the
\* score of every pair comes from the distance the index returned for that
\* pair's own page.
C6_ScoresFollowIndexOrder ==
    QueryDone =>
        /\ \A i \in 1..Len(output.results) :
             \E j \in HitsOf(output.results[i].page) :
                output.results[i].score = ScoreOf(output.hits[j].d)
        /\ \A i, k \in 1..Len(output.results) :
             i < k => \E j \in HitsOf(output.results[i].page) :
                         \A l \in HitsOf(output.results[k].page) : j < l

\* C7: search returns at most top_k pairs, no pair for an identifier that is
\* not a stored page, and one pair with its own score for every returned
\* identifier that is a stored page.
C7_DropsUnresolvedKeepsScores ==
    QueryDone =>
        /\ Len(output.results) <= output.top_k
        /\ \A i \in 1..Len(output.results) : output.results[i].page \in output.corpus
        /\ \A id \in output.corpus : HitsOf(id) # {} =>
             \E i \in 1..Len(output.results) :
                /\ output.results[i].page = id
                /\ \E j \in HitsOf(id) : output.results[i].score = ScoreOf(output.hits[j].d)

\* C8: a query whose text is the content of an indexed page returns that page
\* first, with score 1.0.
C8_ExactMatchFirst ==
    QueryDone =>
        \A j \in 1..Len(output.db.index) :
            LET D == output.db.index[j].id
            IN (D \in output.corpus /\ PageContent(D) = output.query) =>
                 /\ output.results # <<>>
                 /\ output.results[1] = [score |-> F32One, page |-> D]

TwoToMinus24 == <<Pow2(MantBits - 1), 1 - 2 * MantBits>>

\* C9 as stated: the score lies in (0, 1], is strictly decreasing in the
\* distance, and is 1.0 only for distance 0.
C9_ScoreStrictlyDecreasing ==
    score # <<>> =>
        /\ \A i \in 1..2 :
             /\ F32Less(F32Zero, score[i])
             /\ F32Leq(score[i], F32One)
             /\ score[i] = F32One => dist[i] = F32Zero
        /\ F32Less(dist[1], dist[2]) => F32Less(score[2], score[1])

\* C9, amended: the float32 score lies in (0, 1], never increases with the
\* distance, is 1.0 for distance 0, and is 1.0 exactly for the distances up
\* to 2^-24, which 1.0 + d rounds away.
C9_ScoreBoundedMonotone ==
    score # <<>> =>
        /\ \A i \in 1..2 :
             /\ F32Less(F32Zero, score[i])
             /\ F32Leq(score[i], F32One)
             /\ dist[i] = F32Zero => score[i] = F32One
             /\ score[i] = F32One <=> F32Leq(dist[i], TwoToMinus24)
        /\ F32Leq(dist[1], dist[2]) => F32Leq(score[2], score[1])

\* a positive distance with score 1.0, and a larger one with a smaller score
C9_Witness ==
    /\ score # <<>>
    /\ F32Less(F32Zero, dist[1])
    /\ score[1] = F32One
    /\ F32Less(dist[1], dist[2])
    /\ F32Less(score[2], score[1])

\* C10: a search, answered or failed, changes no VectorDB of database_map.
C10_SearchLeavesIndexFrozen ==
    [][(pc = "idle" /\ output'.cmd = "query") => database_map' = database_map]_vars

\* a search has failed on the provider and the index it ran on is as built
C10_Witness ==
    /\ pc = "crashed"
    /\ output = [cmd |-> "query", status |-> "ProviderError"]
    /\ active_db # None
    /\ database_map[active_db].built
    /\ database_map[active_db].index # <<>>

---------------------------------------------------------------------------
(* Properties of the scan and of the build pass.                           *)

\* the step is a page fetch of embed_db (embedding.py:56-61)
FetchStep ==
    /\ pc = "fetch"
    /\ Len(events') = Len(events) + 1
    /\ events'[Len(events')].ev = "fetch"

ScanEnded == pc \in {"report", "crashed"}

\* C11: a scan ends after finitely many fetches; it stops at the first fetch
\* that returns no page and at no fetch that returns one; every fetch that
\* returns a page moves the cursor strictly up.
C11_ScanTerminates ==
    /\ [][FetchStep =>
            LET pages == events'[Len(events')].ids
            IN /\ pages = <<>> <=> pc' = "report"
               /\ pages # <<>> <=> pc' = "embed"
               /\ pages # <<>> => cur'.last_id > cur.last_id]_vars
    /\ <>ScanEnded

\* a scan of three fetches has ended on its first empty one
C11_Witness ==
    /\ pc = "report"
    /\ Len(EventsOf("fetch")) = 3
    /\ EventsOf("fetch")[1].ids # <<>>
    /\ EventsOf("fetch")[2].ids # <<>>
    /\ EventsOf("fetch")[3].ids = <<>>

\* the positions of events at which a step of kind name handled page id
PosOf(name, id) ==
    {i \in 1..Len(events) : events[i].ev = name /\ id \in Range(events[i].ids)}

\* the entries an index holds under identifier id
EntriesOf(index, id) == {i \in 1..Len(index) : index[i].id = id}

\* the index entry was made from a page that a fetch returned, that the
\* provider then embedded and that an insertion call then added, with the
\* vector of that page's content
EntryEmbedded(entry, model) ==
    /\ \E f \in PosOf("fetch", entry.id), m \in PosOf("embed", entry.id),
          a \in PosOf("add", entry.id) : f < m /\ m < a
    /\ entry.vec = EmbedVec(model, PageContent(entry.id))

\* C12: a fetch returns only pages that are in the page table when it runs;
\* every identifier in the index under construction is that of a page that
\* was fetched, embedded and then added; and when a build has run to its end
\* every page a fetch returned is in the index once for each insertion call
\* made for it, and at least once.
C12_IndexHoldsEmbeddedPages ==
    /\ [][FetchStep => Range(events'[Len(events')].ids) \subseteq corpus]_vars
    /\ [](cur.building =>
            \A i \in 1..Len(cur.self.index) :
                EntryEmbedded(cur.self.index[i], cur.embedding_model))
    /\ [](BuildDone =>
            LET db == database_map[output.model]
            IN /\ \A i \in 1..Len(db.index) : EntryEmbedded(db.index[i], output.model)
               /\ \A id \in Ids :
                    /\ Cardinality(EntriesOf(db.index, id)) = Cardinality(PosOf("add", id))
                    /\ PosOf("fetch", id) # {} => EntriesOf(db.index, id) # {})

\* a build has ended with a page that two insertion calls added, and that
\* page has since been deleted from the page table
C12_Witness ==
    /\ BuildDone
    /\ \E id \in Ids :
         /\ Cardinality(EntriesOf(database_map[output.model].index, id)) = 2
         /\ Cardinality(PosOf("add", id)) = 2
    /\ \E id \in Ids \ corpus : EntriesOf(database_map[output.model].index, id) # {}

\* C13: a Batch Embedding Unit that embed_page_batch returns has one matrix
\* row for every page, row i being the vector of page i; a provider response
\* with another number of vectors makes the call fail instead.
C13_RowsMatchPages ==
    pc = "insert" =>
        /\ Len(cur.rows) = Len(cur.pages)
        /\ \A i \in 1..Len(cur.pages) :
             cur.rows[i] = EmbedVec(cur.embedding_model, PageContent(cur.pages[i]))

\* the value of last_id when the step at position p of events ran
RECURSIVE CursorAt(_)
CursorAt(p) ==
    IF p <= 1 THEN 0
    ELSE IF events[p - 1].ev = "fetch" /\ events[p - 1].ids # <<>>
         THEN NextCursor(events[p - 1].ids)
         ELSE CursorAt(p - 1)

\* the positions of events at which another process stored a page with an
\* identifier below the cursor of the running scan
InsertsBelowCursor ==
    {p \in 1..Len(events) : events[p].ev = "insert" /\ events[p].ids[1] < CursorAt(p)}

\* the step is a write of another process that stores page id
InsertStep(id) ==
    /\ Len(events') = Len(events) + 1
    /\ events'[Len(events')] = Event("insert", <<id>>)

\* C14: a page stored between two fetches of a running scan with an
\* identifier below the cursor is in no later page of that scan, is not
\* embedded and is not added to the index; the fetch that follows returns
\* what it would have returned without that page; and the scan still ends.
C14_InsertBelowCursorSkipped ==
    /\ [](\A p \in InsertsBelowCursor : \A q \in (p + 1)..Len(events) :
              events[q].ev \in {"fetch", "embed", "add"} =>
                  events[p].ids[1] \notin Range(events[q].ids))
    /\ [][\A id \in Ids :
             (pc = "fetch" /\ InsertStep(id) /\ id < cur.last_id) =>
                 FetchPage(corpus', cur'.last_id, cur'.batch_size)
                     = FetchPage(corpus, cur.last_id, cur.batch_size)]_vars
    /\ <>ScanEnded

\* a page was stored below the cursor, a later fetch returned a page, and the
\* build ran to its end without the stored page in its index
C14_Witness ==
    /\ BuildDone
    /\ \E p \in InsertsBelowCursor :
         /\ \E q \in (p + 1)..Len(events) :
               events[q].ev = "add" /\ events[q].ids # <<>>
         /\ events[p].ids[1] \in corpus
         /\ EntriesOf(database_map[output.model].index, events[p].ids[1]) = {}

\* s is in strictly ascending order
Ascending(s) == \A i \in 1..(Len(s) - 1) : s[i] < s[i + 1]

\* C15: the cursor starts below every identifier; a fetch returns at most
\* batch_size pages, all with identifiers above the cursor, in ascending
\* order of identifier, the batch_size smallest such pages; and after a
\* fetch that returned a page the cursor is the greatest identifier returned.
C15_AscendingCursor ==
    /\ (cur.building /\ cur.allocated /\ EventsOf("fetch") = <<>>) =>
          \A id \in Ids : cur.last_id < id
    /\ pc = "embed" =>
          LET before == CursorAt(Len(events))
              above == {i \in corpus : i > before}
          IN /\ Len(cur.pages) <= cur.batch_size
             /\ Range(cur.pages) \subseteq above
             /\ Ascending(cur.pages)
             /\ cur.pages = Take(SeqAsc(above), cur.batch_size)
             /\ cur.last_id = SetMax(Range(cur.pages))

\* the steps of the build pass among events, in order
BuildSteps == SelectSeq(events, LAMBDA e : e.ev \in {"fetch", "embed", "add"})

\* C16: the steps of a build pass come as fetch, embed, insert of one page,
\* then fetch, embed, insert of the next: a page is embedded right after its
\* fetch and inserted right after its embedding, a fetch follows the insert
\* of the page before it, at most one page is fetched and not yet inserted,
\* and the index under construction changes only by the build's own insert.
C16_BuildIsSequential ==
    /\ [](\A i \in 1..Len(BuildSteps) :
             /\ BuildSteps[i].ev = "fetch" => (i = 1 \/ BuildSteps[i - 1].ev = "add")
             /\ BuildSteps[i].ev = "embed" =>
                   /\ i > 1
                   /\ BuildSteps[i - 1] = Event("fetch", BuildSteps[i].ids)
                   /\ BuildSteps[i].ids # <<>>
             /\ BuildSteps[i].ev = "add" =>
                   /\ i > 1
                   /\ BuildSteps[i - 1] = Event("embed", BuildSteps[i].ids))
    /\ [](Cardinality({i \in 1..Len(BuildSteps) :
                          BuildSteps[i].ev = "fetch" /\ BuildSteps[i].ids # <<>>})
           - Len(EventsOf("add")) \in {0, 1})
    /\ [][(cur.building /\ cur'.building /\ cur'.self # cur.self) =>
             /\ pc = "insert"
             /\ events' = Append(events, Event("add", cur.pages))
             /\ cur'.self.index = IndexAdd(cur.self.index, cur.rows, cur.pages)]_vars

\* three pages have been fetched, embedded and inserted one after the other
\* while another process wrote to the page table
C16_Witness ==
    /\ pc = "fetch"
    /\ Len(EventsOf("add")) = 3
    /\ ~Unmutated

---------------------------------------------------------------------------
(* Properties of send_message.                                             *)

\* the two messages a successful call makes, as stored under chat c
NewMessages(c) ==
    <<Message("user", UserPrompt(send.message), c),
      Message(send.response.role, send.response.content, c)>>

\* s ends with the elements of t
EndsWith(s, t) ==
    Len(s) >= Len(t) /\ SubSeq(s, Len(s) - Len(t) + 1, Len(s)) = t

\* C17: when send_message has succeeded with chat_id None, the message it
\* returns carries the id of a stored chat whose messages end with the two
\* new ones; and a call the chat loop makes after an answered one passes the
\* id of that answer's chat and loads that chat with the earlier messages.
C17_ConversationContinues ==
    /\ (send.pc = "returned" /\ send.chat_id = NoId) =>
          /\ send.result.chat_id # NoId
          /\ chat_table[send.result.chat_id].stored
          /\ EndsWith(chat_table[send.result.chat_id].messages,
                      NewMessages(send.result.chat_id))
    /\ (send.pc \in {"call", "commit", "returned"} /\ send.caller = "loop"
          /\ printed # <<>>) =>
          /\ send.chat_id # NoId
          /\ send.chat_id = printed[Len(printed)].chat_id
          /\ send.chat.persistent
          /\ \A i \in 1..Len(printed) :
               \E j \in 1..Len(send.loaded) : send.loaded[j] = printed[i]

\* the step starts a send_message call (messaging.py:31-41)
SendStartStep == send.pc = "idle" /\ send'.pc # "idle"

\* the step is a successful call's extend, commit and return (messaging.py:43-48)
SendCommitStep == send.pc = "commit" /\ send'.pc = "returned"

\* the messages of ms as the chat model is given them
AsHistory(ms) == [i \in 1..Len(ms) |-> OllamaMessage(ms[i].role, ms[i].content)]

\* C18: a call with the id of a chat that is not stored, and no other call,
\* raises ValueError, and it does so with no call of the chat model; a call
\* that raises stores nothing; a successful call appends exactly two messages
\* to its chat (and to the stored rows of a chat that is stored), the user
\* message and then the response, and returns the response message; the
\* history given to the chat model is the earlier messages in stored order
\* and then the new user message, after the system prompt when the chat has
\* one and no earlier message.
C18_SendContract ==
    /\ [][SendStartStep =>
            ((send'.chat_id # NoId /\ ~chat_table[send'.chat_id].stored)
                <=> (send'.pc = "raised" /\ send'.error = "ValueError"))]_vars
    /\ []((send.pc = "raised" /\ send.error = "ValueError") => send.sent = <<>>)
    /\ [][send'.pc = "raised" => chat_table' = chat_table]_vars
    /\ [][SendCommitStep =>
            LET id == send'.result.chat_id
            IN /\ send'.chat.messages = [i \in 1..Len(send.chat.messages) |->
                                           [send.chat.messages[i] EXCEPT !.chat_id = id]]
                                        \o NewMessages(id)
               /\ send'.result = NewMessages(id)[2]
               /\ send'.result.role = send.response.role
               /\ send'.result.content = send.response.content
               /\ send.chat.persistent =>
                     /\ id = send.chat_id
                     /\ chat_table'[id].messages = chat_table[id].messages \o NewMessages(id)
               /\ \A c \in ChatIds : c # id => chat_table'[c] = chat_table[c]]_vars
    /\ [](send.pc \in {"commit", "returned"} =>
            send.sent = (IF send.loaded = <<>> /\ send.chat.system_prompt # NoText
                         THEN <<OllamaMessage("system", send.chat.system_prompt)>>
                         ELSE <<>>)
                        \o AsHistory(send.loaded)
                        \o <<OllamaMessage("user", UserPrompt(send.message))>>)

\* the second call of a run, on a stored chat with an earlier exchange, has
\* returned the response, and the chat now holds four messages
C18_Witness ==
    /\ send.pc = "returned"
    /\ sends = 2
    /\ send.chat.persistent
    /\ send.loaded # <<>>
    /\ Len(chat_table[send.chat_id].messages) = 4
    /\ send.result = chat_table[send.chat_id].messages[4]

---------------------------------------------------------------------------
(* Properties of crawl.                                                    *)

\* the crawl call is over: it returned, or it raised and the run was shut down
CrawlOver == crawl.pc \in {"done", "closed"}

\* the Page rows stored for url u
PagesOf(u) == {i \in 1..Len(page_table) : page_table[i].url_id = u}

\* C19: when a crawl is over it has returned, not raised; every distinct url
\* of its input was fetched by exactly one task; a Page is stored and the
\* status is DONE for each url whose fetch and parse succeeded and for no
\* other; each url that failed is stored as QUEUED with no Page; and
\* success_count + exception_count is the number of distinct urls.
C19_CrawlAccounts ==
    CrawlOver =>
        /\ crawl.pc = "done"
        /\ DOMAIN tasks = crawl.urls
        /\ \A u \in crawl.urls :
             /\ crawl.fetched[u] = 1
             /\ tasks[u] \in {"ok", "failed"}
             /\ tasks[u] = "ok" => (url_table[u] = "DONE" /\ Cardinality(PagesOf(u)) = 1)
             /\ tasks[u] = "failed" => (url_table[u] = "QUEUED" /\ PagesOf(u) = {})
        /\ \A i \in 1..Len(page_table) : page_table[i].url_id \in crawl.urls
        /\ crawl.success_count + crawl.exception_count = Cardinality(crawl.urls)

\* C20: at every moment at most MAX_POOL_SIZE tasks are inside the fetch and
\* parse section and every slot is either free or held by a task inside it;
\* and when the crawl is over every task has been inside the section.
C20_PoolBoundedNoLeak ==
    /\ crawl.pc \notin {"off", "idle"} =>
          /\ Cardinality(TasksIn("inside")) <= crawl.MAX_POOL_SIZE
          /\ semaphore.value + Cardinality(TasksIn("inside")) = crawl.MAX_POOL_SIZE
    /\ CrawlOver => \A u \in crawl.urls : crawl.fetched[u] >= 1

---------------------------------------------------------------------------
(* Properties of the command loop of vector_db.py.                         *)

\* the step is the command loop handling a command of kind cmd
CmdStep(cmd) == pc = "idle" /\ pc' # "idle" /\ output'.cmd = cmd

\* C21: active_db is None or the key of a built entry of database_map; a
\* /select of a model without a built index reports an error and leaves
\* active_db as it was, any other /select makes its model the active one;
\* a /query calls search only when a selection exists, and then on the
\* entry of database_map under active_db, a VectorDB whose build has run to
\* its end, with no build under way.
C21_ActiveDbIsBuilt ==
    /\ [](active_db = None \/ database_map[active_db].built)
    /\ [][CmdStep("select") =>
            IF database_map[output'.model].built
            THEN output'.status = "ok" /\ active_db' = output'.model
            ELSE output'.status = "error" /\ active_db' = active_db]_vars
    /\ [][CmdStep("query") =>
            IF active_db = None
            THEN events' = <<>> /\ output'.status = "error"
            ELSE /\ events' # <<>>
                 /\ database_map[active_db].built
                 /\ ~cur.building
                 /\ VectorDBLen(database_map[active_db]) = Len(database_map[active_db].index)
                 /\ output'.status = "ok" => output'.db = database_map[active_db]]_vars

\* with one model built and selected, a /select of the model that has no
\* index has reported its error and the selection is as before
C21_Witness ==
    /\ pc = "report"
    /\ output.cmd = "select" /\ output.status = "error"
    /\ active_db # None
    /\ active_db # output.model
    /\ ~database_map[output.model].built

---------------------------------------------------------------------------
(* Properties of the session blocks of db.py and of URL.get_or_create.     *)

\* the session block has been left
Exited == session.pc = "exited"

\* C22: when a block of DB.session or DB.async_session has been left: if its
\* body completed, commit was called exactly once, a commit that succeeded
\* stored what the body had added, and no rollback ran unless the commit
\* raised; if its body raised, commit was not called, the store is as it
\* was at entry, nothing of the body is left pending in the session, and the
\* block was left by the exception the body raised; and in every case the
\* session is closed.
C22_CommitOrRollbackThenClose ==
    Exited =>
      /\ session.body = "ok" =>
           /\ session.commits = 1
           /\ session.committed => session.rollbacks = 0 /\ session.thrown = NoExc
           /\ ~session.committed => url_table = session.before
      /\ session.body # "ok" =>
           /\ session.commits = 0
           /\ url_table = session.before
           /\ session.new = {} /\ session.flushed = {}
           /\ blocks[Len(blocks)].out = session.body
      /\ session.state = "closed"

\* the i-th call of get_or_create returned, in a block whose commit succeeded
CommittedCall(i) ==
    /\ calls[i].returned
    /\ calls[i].block <= Len(blocks)
    /\ blocks[calls[i].block].committed

\* C23: a call of URL.get_or_create returns the row with flag False if the url
\* has one and a new item with flag True if not; once the block of the call
\* has committed, the url has its row in the store; and a call for the same
\* url in a later block returns that row with flag False.
C23_GetOrCreateStoresOnce ==
    /\ \A i \in 1..Len(calls) :
         calls[i].returned =>
           /\ calls[i].created = ~calls[i].existed
           /\ calls[i].existed => calls[i].item.persistent /\ calls[i].item.id = calls[i].url
    /\ \A i \in 1..Len(calls) :
         CommittedCall(i) => calls[i].url \in Stored(url_table)
    /\ \A i, j \in 1..Len(calls) :
         (CommittedCall(i) /\ calls[i].block < calls[j].block /\ calls[j].url = calls[i].url) =>
           /\ calls[j].returned
           /\ ~calls[j].created
           /\ calls[j].item.persistent /\ calls[j].item.id = calls[j].url

=============================================================================
